---------------------------- MODULE Spec2Model ----------------------------
(***************************************************************************)
(* Harmonic series summation (harmonic_sum.cpp): the sequential reducer    *)
(* compute_harmonic_sequential and the OpenMP task based reducer           *)
(* compute_harmonic_parallel, modelled as a state machine.                 *)
(*                                                                         *)
(* Arithmetic on the sums is exact: a sum s is represented by the integer  *)
(* s * Scale, where Scale is the least common multiple of 1..MaxN, so that *)
(* every term 1/i with 1 <= i <= MaxN is the integer Scale \div i.  The    *)
(* rounding of IEEE doubles is not represented.                            *)
(***************************************************************************)
EXTENDS Integers, Sequences, FiniteSets, TLC

\* Bounds of the model: the largest problem size and thread count explored.
MaxN == 4
MaxT == 3

VARIABLES
    USE_PARALLEL,   \* build flag: which reducer main() calls
    n,              \* argument n of the call
    num_threads,    \* argument num_threads of the call (parallel build)
    main_pc,        \* position of main(): "call", "seq_loop", "par_region", "returned", "crashed"
    result,         \* the value returned to main (meaningful once main_pc = "returned")
    i,              \* loop index of compute_harmonic_sequential
    sum,            \* accumulator of compute_harmonic_sequential
    seq_trace,      \* history: the indices whose term the sequential loop added, in order
    seq_hist,       \* history: the states <<i, sum>> the sequential loop went through
    global_sum,     \* the shared accumulator of compute_harmonic_parallel
    writes,         \* history: number of mutations of global_sum since its initialisation
    team,           \* number of threads of the team of the parallel region (0: no team yet)
    thr,            \* thread number -> [pc, run]: position in the region, task being executed
    single_owner,   \* the thread that executes the single construct (NoThread: none yet)
    block_size,     \* local of the single block
    k,              \* loop counter of the task creating loop
    start,          \* local of the loop body, as last computed by the coordinator
    end,            \* local of the loop body, as last computed by the coordinator
    tasks,          \* block index -> the explicit task created for it
    created,        \* history: the task creations of this invocation, [block, by], in order
    calls,          \* number of invocations of the reducer begun by the caller
    prev_result,    \* history: the result of the previous invocation
    prev_hist       \* history: seq_hist of the previous invocation

vars == <<USE_PARALLEL, n, num_threads, main_pc, result, i, sum, seq_trace,
          seq_hist, global_sum, writes, team, thr, single_owner, block_size,
          k, start, end, tasks, created, calls, prev_result, prev_hist>>

seqVars == <<i, sum, seq_trace, seq_hist>>
parVars == <<global_sum, writes, team, thr, single_owner, block_size, k,
             start, end, tasks, created>>
callVars == <<calls, prev_result, prev_hist>>

NoTask == 0 - 1
NoThread == 0 - 1

\* The arguments explored: valid ones and the invalid ones below 1.
NValues == (0 - 1)..MaxN
TValues == (0 - 1)..MaxT

-----------------------------------------------------------------------------
(* Arithmetic *)

Abs(x) == IF x < 0 THEN 0 - x ELSE x

RECURSIVE Gcd(_, _)
Gcd(a, b) == IF b = 0 THEN a ELSE Gcd(b, a % b)

RECURSIVE Lcm1(_)
Lcm1(m) == IF m <= 1 THEN 1 ELSE (Lcm1(m - 1) * m) \div Gcd(Lcm1(m - 1), m)

Scale == Lcm1(MaxN)

\* A term of the wrong sign.
Term_negated(idx) == 0 - (Scale \div idx)

\* 1.0 / static_cast<double>(i), exactly, in units of 1/Scale.
Term(idx) == Scale \div idx

\* The integer division of C++ (truncation toward zero), for b # 0.
TruncDiv(a, b) ==
    IF (a >= 0) = (b > 0) THEN Abs(a) \div Abs(b) ELSE 0 - (Abs(a) \div Abs(b))

-----------------------------------------------------------------------------
(* main() and compute_harmonic_sequential *)

Init ==
    /\ USE_PARALLEL \in BOOLEAN
    /\ n \in NValues
    /\ num_threads \in TValues
    /\ main_pc = "call"
    /\ result = 0
    /\ i = 0
    /\ sum = 0
    /\ seq_trace = << >>
    /\ global_sum = 0
    /\ writes = 0
    /\ team = 0
    /\ thr = << >>
    /\ single_owner = NoThread
    /\ block_size = 0
    /\ k = 0
    /\ start = 0
    /\ end = 0
    /\ tasks = << >>
    /\ seq_hist = << >>
    /\ created = << >>
    /\ calls = 1
    /\ prev_result = 0
    /\ prev_hist = << >>

\* A loop that stops one index early (i > 1).
SeqLoopCond_strict(idx) == idx > 1

\* The condition of the loop of compute_harmonic_sequential: i >= 1
SeqLoopCond(idx) == idx >= 1

\* An accumulator that keeps its value from one invocation to the next.
CallSequential_noReset ==
    /\ main_pc = "call"
    /\ ~USE_PARALLEL
    /\ sum' = sum
    /\ i' = n
    /\ seq_trace' = << >>
    /\ seq_hist' = << <<i', sum'>> >>
    /\ main_pc' = "seq_loop"
    /\ UNCHANGED callVars
    /\ UNCHANGED <<USE_PARALLEL, n, num_threads, result>>
    /\ UNCHANGED parVars

\* double sum = 0.0; for (long long i = n; ...
CallSequential ==
    /\ main_pc = "call"
    /\ ~USE_PARALLEL
    /\ sum' = 0
    /\ i' = n
    /\ seq_trace' = << >>
    /\ seq_hist' = << <<i', sum'>> >>
    /\ main_pc' = "seq_loop"
    /\ UNCHANGED callVars
    /\ UNCHANGED <<USE_PARALLEL, n, num_threads, result>>
    /\ UNCHANGED parVars

\* One iteration: sum += 1.0 / i; i--
SeqLoopStep ==
    /\ main_pc = "seq_loop"
    /\ SeqLoopCond(i)
    /\ sum' = sum + Term(i)
    /\ seq_trace' = Append(seq_trace, i)
    /\ i' = i - 1
    /\ seq_hist' = Append(seq_hist, <<i', sum'>>)
    /\ UNCHANGED callVars
    /\ UNCHANGED <<USE_PARALLEL, n, num_threads, main_pc, result>>
    /\ UNCHANGED parVars

\* The loop condition fails: return sum
SeqReturn ==
    /\ main_pc = "seq_loop"
    /\ ~SeqLoopCond(i)
    /\ result' = sum
    /\ main_pc' = "returned"
    /\ UNCHANGED callVars
    /\ UNCHANGED <<USE_PARALLEL, n, num_threads>>
    /\ UNCHANGED seqVars
    /\ UNCHANGED parVars

\* The sequential reducer as a function of n: the loop above, unrolled.
RECURSIVE SeqLoop(_, _)
SeqLoop(idx, acc) == IF SeqLoopCond(idx) THEN SeqLoop(idx - 1, acc + Term(idx)) ELSE acc

compute_harmonic_sequential(m) == SeqLoop(m, 0)

\* The states <<i, sum>> the loop of the sequential reducer goes through from
\* <<idx, acc>>, the first included.
RECURSIVE SeqStatesFrom(_, _)
SeqStatesFrom(idx, acc) ==
    << <<idx, acc>> >> \o
        (IF SeqLoopCond(idx) THEN SeqStatesFrom(idx - 1, acc + Term(idx)) ELSE << >>)

-----------------------------------------------------------------------------
(* compute_harmonic_parallel *)

Threads == 0..(team - 1)

\* The team sizes the runtime may give a region that requested num_threads.
TeamSizes == IF num_threads >= 1 THEN 1..num_threads ELSE {1}

\* A wait that waits for no task.
AllTasksCompleted_none == TRUE

AllTasksCompleted == \A j \in DOMAIN tasks : tasks[j].pc = "completed"

\* An accumulator that keeps its value from one invocation to the next.
CallParallel_noReset ==
    /\ main_pc = "call"
    /\ USE_PARALLEL
    /\ global_sum' = global_sum
    /\ writes' = 0
    /\ team' \in TeamSizes
    /\ thr' = [t \in 0..(team' - 1) |-> [pc |-> "enter", run |-> NoTask]]
    /\ main_pc' = "par_region"
    /\ UNCHANGED callVars
    /\ UNCHANGED <<USE_PARALLEL, n, num_threads, result, single_owner,
                   block_size, k, start, end, tasks>>
    /\ UNCHANGED <<seqVars, created>>

\* double global_sum = 0.0; omp_set_num_threads; #pragma omp parallel
CallParallel ==
    /\ main_pc = "call"
    /\ USE_PARALLEL
    /\ global_sum' = 0
    /\ writes' = 0
    /\ team' \in TeamSizes
    /\ thr' = [t \in 0..(team' - 1) |-> [pc |-> "enter", run |-> NoTask]]
    /\ main_pc' = "par_region"
    /\ UNCHANGED callVars
    /\ UNCHANGED <<USE_PARALLEL, n, num_threads, result, single_owner,
                   block_size, k, start, end, tasks>>
    /\ UNCHANGED <<seqVars, created>>

\* A region without the single construct: every thread executes the block.
EnterSingle_everyThread(t) ==
    /\ main_pc = "par_region"
    /\ thr[t].pc = "enter"
    /\ single_owner' = t
    /\ thr' = [thr EXCEPT ![t].pc = "single"]
    /\ UNCHANGED callVars
    /\ UNCHANGED <<USE_PARALLEL, n, num_threads, main_pc, result, global_sum,
                   writes, team, block_size, k, start, end, tasks>>
    /\ UNCHANGED <<seqVars, created>>

\* #pragma omp single: the first thread to arrive executes the block, the
\* others go to the barrier that ends the construct.
EnterSingle(t) ==
    /\ main_pc = "par_region"
    /\ thr[t].pc = "enter"
    /\ IF single_owner = NoThread
       THEN /\ single_owner' = t
            /\ thr' = [thr EXCEPT ![t].pc = "single"]
       ELSE /\ single_owner' = single_owner
            /\ thr' = [thr EXCEPT ![t].pc = "barrier"]
    /\ UNCHANGED callVars
    /\ UNCHANGED <<USE_PARALLEL, n, num_threads, main_pc, result, global_sum,
                   writes, team, block_size, k, start, end, tasks>>
    /\ UNCHANGED <<seqVars, created>>

\* A block size rounded up instead of truncated.
BlockSize_ceil(nn, tt) == TruncDiv(nn + tt - 1, tt)

\* n / num_threads, for num_threads # 0
BlockSize(nn, tt) == TruncDiv(nn, tt)

\* long long block_size = n / num_threads; int k = 0.  Division by zero is
\* undefined: the process traps, or the quotient (never used, the loop has
\* no iteration) is whatever the hardware leaves.
ComputeBlockSize(t) ==
    /\ main_pc = "par_region"
    /\ thr[t].pc = "single"
    /\ IF num_threads = 0
       THEN \/ /\ main_pc' = "crashed"
               /\ UNCHANGED <<thr, block_size, k>>
            \/ /\ block_size' = 0
               /\ k' = 0
               /\ thr' = [thr EXCEPT ![t].pc = "loop"]
               /\ UNCHANGED main_pc
       ELSE /\ block_size' = BlockSize(n, num_threads)
            /\ k' = 0
            /\ thr' = [thr EXCEPT ![t].pc = "loop"]
            /\ UNCHANGED main_pc
    /\ UNCHANGED callVars
    /\ UNCHANGED <<USE_PARALLEL, n, num_threads, result, global_sum, writes,
                   team, single_owner, start, end, tasks>>
    /\ UNCHANGED <<seqVars, created>>

\* A partitioner whose blocks start one index early (no + 1).
BlockStart_zeroBased(kk) == kk * block_size

\* A partitioner whose blocks start one index late.
BlockStart_gap(kk) == kk * block_size + 2

\* A partitioner that gives the last block no remainder.
BlockEnd_noRemainder(kk) == (kk + 1) * block_size

\* A partitioner whose inner blocks end one index early.
BlockEnd_exclusive(kk) ==
    IF kk = num_threads - 1 THEN n ELSE (kk + 1) * block_size - 1

\* A partitioner whose inner blocks end one index late.
BlockEnd_overlap(kk) ==
    IF kk = num_threads - 1 THEN n ELSE (kk + 1) * block_size + 1

\* The partitioner: the bounds of block kk.
BlockStart(kk) == kk * block_size + 1
BlockEnd(kk) == IF kk = num_threads - 1 THEN n ELSE (kk + 1) * block_size

\* The task created for a block: its firstprivate copies of start and end,
\* its locals i and local_sum (set when it starts), and its history: the
\* indices whose term it added, and the number of its adds to global_sum.
NewTask(s, e) ==
    [pc |-> "pending", start |-> s, end |-> e, i |-> 0, local_sum |-> 0,
     trace |-> << >>, adds |-> 0]

\* A loop that runs one iteration too many (k <= num_threads).
DispatchCond_inclusive(kk) == kk <= num_threads

\* The condition of the task creating loop: k < num_threads
DispatchCond(kk) == kk < num_threads

\* One iteration of the task creating loop: compute start and end, create
\* the task with its copies of them, k++.
Dispatch(t) ==
    /\ main_pc = "par_region"
    /\ thr[t].pc = "loop"
    /\ thr[t].run = NoTask
    /\ DispatchCond(k)
    /\ start' = BlockStart(k)
    /\ end' = BlockEnd(k)
    /\ tasks' = [j \in 0..k |-> IF j = k THEN NewTask(start', end') ELSE tasks[j]]
    /\ k' = k + 1
    /\ created' = Append(created, [block |-> k, by |-> t])
    /\ UNCHANGED callVars
    /\ UNCHANGED <<USE_PARALLEL, n, num_threads, main_pc, result, global_sum,
                   writes, team, thr, single_owner, block_size>>
    /\ UNCHANGED seqVars

\* The loop condition k < num_threads fails: go on to the taskwait.
LoopExit(t) ==
    /\ main_pc = "par_region"
    /\ thr[t].pc = "loop"
    /\ thr[t].run = NoTask
    /\ ~DispatchCond(k)
    /\ thr' = [thr EXCEPT ![t].pc = "taskwait"]
    /\ UNCHANGED callVars
    /\ UNCHANGED <<USE_PARALLEL, n, num_threads, main_pc, result, global_sum,
                   writes, team, single_owner, block_size, k, start, end, tasks>>
    /\ UNCHANGED <<seqVars, created>>

\* A runtime that runs a task only at the point where tasks are created.
AtSchedulingPoint_creationOnly(t) == thr[t].pc = "loop"

\* The task scheduling points of the region: after the creation of a task,
\* in the taskwait, in the barriers.
AtSchedulingPoint(t) == thr[t].pc \in {"loop", "taskwait", "barrier", "region_end"}

\* A task that shares start and end with the coordinator: it reads them when
\* it starts, not when it is created.
TaskStart_shared(t, j) ==
    /\ main_pc = "par_region"
    /\ AtSchedulingPoint(t)
    /\ thr[t].run = NoTask
    /\ j \in DOMAIN tasks
    /\ tasks[j].pc = "pending"
    /\ tasks' = [tasks EXCEPT ![j].pc = "running", ![j].local_sum = 0,
                               ![j].start = start, ![j].end = end,
                               ![j].i = end]
    /\ thr' = [thr EXCEPT ![t].run = j]
    /\ UNCHANGED callVars
    /\ UNCHANGED <<USE_PARALLEL, n, num_threads, main_pc, result, global_sum,
                   writes, team, single_owner, block_size, k, start, end>>
    /\ UNCHANGED <<seqVars, created>>

\* A task whose loop starts one index below end.
TaskStart_belowEnd(t, j) ==
    /\ main_pc = "par_region"
    /\ AtSchedulingPoint(t)
    /\ thr[t].run = NoTask
    /\ j \in DOMAIN tasks
    /\ tasks[j].pc = "pending"
    /\ tasks' = [tasks EXCEPT ![j].pc = "running", ![j].local_sum = 0,
                               ![j].i = tasks[j].end - 1]
    /\ thr' = [thr EXCEPT ![t].run = j]
    /\ UNCHANGED callVars
    /\ UNCHANGED <<USE_PARALLEL, n, num_threads, main_pc, result, global_sum,
                   writes, team, single_owner, block_size, k, start, end>>
    /\ UNCHANGED <<seqVars, created>>

\* A thread at a task scheduling point begins a pending task:
\* double local_sum = 0.0; for (long long i = end; ...
TaskStart(t, j) ==
    /\ main_pc = "par_region"
    /\ AtSchedulingPoint(t)
    /\ thr[t].run = NoTask
    /\ j \in DOMAIN tasks
    /\ tasks[j].pc = "pending"
    /\ tasks' = [tasks EXCEPT ![j].pc = "running", ![j].local_sum = 0,
                               ![j].i = tasks[j].end]
    /\ thr' = [thr EXCEPT ![t].run = j]
    /\ UNCHANGED callVars
    /\ UNCHANGED <<USE_PARALLEL, n, num_threads, main_pc, result, global_sum,
                   writes, team, single_owner, block_size, k, start, end>>
    /\ UNCHANGED <<seqVars, created>>

\* A loop that stops one index early (i > start).
TaskLoopCond_strict(idx, s) == idx > s

\* The condition of the loop of a task: i >= start
TaskLoopCond(idx, s) == idx >= s

\* A loop whose body also performs the add to global_sum.
TaskLoopStep_addInLoop(t) ==
    /\ main_pc = "par_region"
    /\ thr[t].run # NoTask
    /\ LET j == thr[t].run IN
        /\ tasks[j].pc = "running"
        /\ TaskLoopCond(tasks[j].i, tasks[j].start)
        /\ tasks' = [tasks EXCEPT
                        ![j].local_sum = tasks[j].local_sum + Term(tasks[j].i),
                        ![j].trace = Append(tasks[j].trace, tasks[j].i),
                        ![j].i = tasks[j].i - 1,
                        ![j].adds = tasks[j].adds + 1]
        /\ global_sum' = global_sum + tasks[j].local_sum + Term(tasks[j].i)
        /\ writes' = writes + 1
    /\ UNCHANGED callVars
    /\ UNCHANGED <<USE_PARALLEL, n, num_threads, main_pc, result,
                   team, thr, single_owner, block_size, k, start, end>>
    /\ UNCHANGED <<seqVars, created>>

\* One iteration of the loop of a task: local_sum += 1.0 / i; i--
TaskLoopStep(t) ==
    /\ main_pc = "par_region"
    /\ thr[t].run # NoTask
    /\ LET j == thr[t].run IN
        /\ tasks[j].pc = "running"
        /\ TaskLoopCond(tasks[j].i, tasks[j].start)
        /\ tasks' = [tasks EXCEPT
                        ![j].local_sum = tasks[j].local_sum + Term(tasks[j].i),
                        ![j].trace = Append(tasks[j].trace, tasks[j].i),
                        ![j].i = tasks[j].i - 1]
    /\ UNCHANGED callVars
    /\ UNCHANGED <<USE_PARALLEL, n, num_threads, main_pc, result, global_sum,
                   writes, team, thr, single_owner, block_size, k, start, end>>
    /\ UNCHANGED <<seqVars, created>>

\* An update that assigns instead of adding.
AtomicAdd_overwrite(shared, local) == local

\* #pragma omp atomic  global_sum += local_sum : the value of the shared
\* accumulator after the atomic update by a task whose sum is local.
AtomicAdd(shared, local) == shared + local

\* The loop of the task is over: the atomic add, and the task completes.
TaskAtomicAdd(t) ==
    /\ main_pc = "par_region"
    /\ thr[t].run # NoTask
    /\ LET j == thr[t].run IN
        /\ tasks[j].pc = "running"
        /\ ~TaskLoopCond(tasks[j].i, tasks[j].start)
        /\ global_sum' = AtomicAdd(global_sum, tasks[j].local_sum)
        /\ writes' = writes + 1
        /\ tasks' = [tasks EXCEPT ![j].pc = "completed",
                                   ![j].adds = tasks[j].adds + 1]
    /\ thr' = [thr EXCEPT ![t].run = NoTask]
    /\ UNCHANGED callVars
    /\ UNCHANGED <<USE_PARALLEL, n, num_threads, main_pc, result, team,
                   single_owner, block_size, k, start, end>>
    /\ UNCHANGED <<seqVars, created>>

\* #pragma omp taskwait: the coordinator goes on once every task it created
\* has completed.
TaskWait(t) ==
    /\ main_pc = "par_region"
    /\ thr[t].pc = "taskwait"
    /\ thr[t].run = NoTask
    /\ AllTasksCompleted
    /\ thr' = [thr EXCEPT ![t].pc = "barrier"]
    /\ UNCHANGED callVars
    /\ UNCHANGED <<USE_PARALLEL, n, num_threads, main_pc, result, global_sum,
                   writes, team, single_owner, block_size, k, start, end, tasks>>
    /\ UNCHANGED <<seqVars, created>>

\* The condition under which a thread leaves a barrier whose arrival
\* positions are at: every thread of the team has arrived and every
\* explicit task of the region has completed.
BarrierOpen(at) ==
    /\ \A u \in Threads : thr[u].pc \in at
    /\ AllTasksCompleted

\* The implicit barrier at the end of the single construct.
SingleBarrier(t) ==
    /\ main_pc = "par_region"
    /\ thr[t].pc = "barrier"
    /\ thr[t].run = NoTask
    /\ BarrierOpen({"barrier", "region_end", "joined"})
    /\ thr' = [thr EXCEPT ![t].pc = "region_end"]
    /\ UNCHANGED callVars
    /\ UNCHANGED <<USE_PARALLEL, n, num_threads, main_pc, result, global_sum,
                   writes, team, single_owner, block_size, k, start, end, tasks>>
    /\ UNCHANGED <<seqVars, created>>

\* The implicit barrier at the end of the parallel region.
RegionBarrier(t) ==
    /\ main_pc = "par_region"
    /\ thr[t].pc = "region_end"
    /\ thr[t].run = NoTask
    /\ BarrierOpen({"region_end", "joined"})
    /\ thr' = [thr EXCEPT ![t].pc = "joined"]
    /\ UNCHANGED callVars
    /\ UNCHANGED <<USE_PARALLEL, n, num_threads, main_pc, result, global_sum,
                   writes, team, single_owner, block_size, k, start, end, tasks>>
    /\ UNCHANGED <<seqVars, created>>

\* The master thread is past the region: return global_sum
ParReturn ==
    /\ main_pc = "par_region"
    /\ thr[0].pc = "joined"
    /\ result' = global_sum
    /\ main_pc' = "returned"
    /\ UNCHANGED callVars
    /\ UNCHANGED <<USE_PARALLEL, n, num_threads>>
    /\ UNCHANGED seqVars
    /\ UNCHANGED parVars

\* Bound of the model: the number of invocations the caller makes.
MaxCalls == 2

\* The caller invokes the same reducer again with the same arguments (the
\* benchmark targets run it three times in a row).  The frame of the previous
\* invocation is gone: the positions, the team and the tasks are as at the
\* start.  The memory of the two accumulators is left as the previous
\* invocation left it, so that only the initialisation done by the
\* invocation itself can make them zero.
Recall ==
    /\ main_pc = "returned"
    /\ calls < MaxCalls
    /\ calls' = calls + 1
    /\ prev_result' = result
    /\ prev_hist' = seq_hist
    /\ main_pc' = "call"
    /\ team' = 0
    /\ thr' = << >>
    /\ single_owner' = NoThread
    /\ block_size' = 0
    /\ k' = 0
    /\ start' = 0
    /\ end' = 0
    /\ tasks' = << >>
    /\ created' = << >>
    /\ UNCHANGED <<USE_PARALLEL, n, num_threads, result, global_sum, writes>>
    /\ UNCHANGED seqVars

-----------------------------------------------------------------------------

Next ==
    \/ CallSequential
    \/ SeqLoopStep
    \/ SeqReturn
    \/ CallParallel
    \/ \E t \in Threads : EnterSingle(t)
    \/ \E t \in Threads : ComputeBlockSize(t)
    \/ \E t \in Threads : Dispatch(t)
    \/ \E t \in Threads : LoopExit(t)
    \/ \E t \in Threads : \E j \in DOMAIN tasks : TaskStart(t, j)
    \/ \E t \in Threads : TaskLoopStep(t)
    \/ \E t \in Threads : TaskAtomicAdd(t)
    \/ \E t \in Threads : TaskWait(t)
    \/ \E t \in Threads : SingleBarrier(t)
    \/ \E t \in Threads : RegionBarrier(t)
    \/ ParReturn
    \/ Recall

Spec == Init /\ [][Next]_vars

\* Bounds of the specification of the partitioner alone.
PartMaxN == 10
PartMaxT == 4

\* The partitioner on its own: the parallel reducer called with valid
\* arguments from a larger range, followed up to the end of the task creating
\* loop; the tasks are created and none is run.
PartInit ==
    /\ USE_PARALLEL = TRUE
    /\ n \in 1..PartMaxN
    /\ num_threads \in 1..PartMaxT
    /\ main_pc = "call"
    /\ result = 0
    /\ i = 0
    /\ sum = 0
    /\ seq_trace = << >>
    /\ seq_hist = << >>
    /\ global_sum = 0
    /\ writes = 0
    /\ team = 0
    /\ thr = << >>
    /\ single_owner = NoThread
    /\ block_size = 0
    /\ k = 0
    /\ start = 0
    /\ end = 0
    /\ tasks = << >>
    /\ created = << >>
    /\ calls = 1
    /\ prev_result = 0
    /\ prev_hist = << >>

PartNext ==
    \/ CallParallel
    \/ \E t \in Threads : EnterSingle(t)
    \/ \E t \in Threads : ComputeBlockSize(t)
    \/ \E t \in Threads : Dispatch(t)
    \/ \E t \in Threads : LoopExit(t)

PartSpec == PartInit /\ [][PartNext]_vars

\* Bounds of the specification of the parallel reducer under fair scheduling.
LiveMaxN == 3
LiveMaxT == 2

\* One invocation of the parallel reducer with valid arguments.
LiveInit ==
    /\ USE_PARALLEL = TRUE
    /\ n \in 1..LiveMaxN
    /\ num_threads \in 1..LiveMaxT
    /\ main_pc = "call"
    /\ result = 0
    /\ i = 0
    /\ sum = 0
    /\ seq_trace = << >>
    /\ seq_hist = << >>
    /\ global_sum = 0
    /\ writes = 0
    /\ team = 0
    /\ thr = << >>
    /\ single_owner = NoThread
    /\ block_size = 0
    /\ k = 0
    /\ start = 0
    /\ end = 0
    /\ tasks = << >>
    /\ created = << >>
    /\ calls = 1
    /\ prev_result = 0
    /\ prev_hist = << >>

\* The steps of the thread that calls the reducer, outside the region.
MainStep == CallParallel \/ ParReturn

\* The steps of thread t of the team.
ThreadStep(t) ==
    /\ t \in Threads
    /\ \/ EnterSingle(t)
       \/ ComputeBlockSize(t)
       \/ Dispatch(t)
       \/ LoopExit(t)
       \/ \E j \in DOMAIN tasks : TaskStart(t, j)
       \/ TaskLoopStep(t)
       \/ TaskAtomicAdd(t)
       \/ TaskWait(t)
       \/ SingleBarrier(t)
       \/ RegionBarrier(t)

LiveNext == MainStep \/ \E t \in Threads : ThreadStep(t)

\* Fair scheduling: a thread that can take a step is not delayed for ever.
FairSpec ==
    /\ LiveInit
    /\ [][LiveNext]_vars
    /\ WF_vars(MainStep)
    /\ \A t \in 0..(LiveMaxT - 1) : WF_vars(ThreadStep(t))

TypeOK ==
    /\ USE_PARALLEL \in BOOLEAN
    /\ n \in NValues
    /\ num_threads \in TValues
    /\ main_pc \in {"call", "seq_loop", "par_region", "returned", "crashed"}
    /\ team \in 0..MaxT
    /\ DOMAIN thr = 0..(team - 1)
    /\ \A t \in DOMAIN thr :
          /\ thr[t].pc \in {"enter", "single", "loop", "taskwait", "barrier",
                            "region_end", "joined"}
          /\ thr[t].run \in {NoTask} \cup DOMAIN tasks
    /\ DOMAIN tasks = 0..(k - 1)
    /\ \A j \in DOMAIN tasks : tasks[j].pc \in {"pending", "running", "completed"}

-----------------------------------------------------------------------------
(* Vocabulary of the properties *)

\* The arguments are valid: N >= 1 and T >= 1.
ValidArgs == n >= 1 /\ num_threads >= 1

\* The parallel reducer is the one called.
InParallel == USE_PARALLEL /\ main_pc \in {"par_region", "returned"}

\* The coordinator has left the task creating loop: the partition is complete.
PartitionDone ==
    /\ InParallel
    /\ single_owner # NoThread
    /\ thr[single_owner].pc \in {"taskwait", "barrier", "region_end", "joined"}

\* The indices of block j, as captured by its task.
Block(j) == tasks[j].start .. tasks[j].end

EmptyBlock(j) == tasks[j].start > tasks[j].end

\* The sum of f[j] over j in 0..m-1.
RECURSIVE SumUpTo(_, _)
SumUpTo(f, m) == IF m <= 0 THEN 0 ELSE f[m - 1] + SumUpTo(f, m - 1)

\* The sum of the terms of the indices of a sequence.
RECURSIVE SumTerms(_)
SumTerms(sq) == IF sq = << >> THEN 0 ELSE Term(Head(sq)) + SumTerms(Tail(sq))

\* 1/1 + 1/2 + ... + 1/m, in ascending order.
RECURSIVE SumRecip(_)
SumRecip(m) == IF m <= 0 THEN 0 ELSE SumRecip(m - 1) + Term(m)

\* The sequence hi, hi-1, ..., lo (empty when hi < lo).
Descending(hi, lo) == [p \in 1..(IF hi >= lo THEN hi - lo + 1 ELSE 0) |-> hi - p + 1]

\* sq is the prefix of length len of Descending(hi, ...).
DescendingFrom(sq, hi) == \A p \in 1..Len(sq) : sq[p] = hi - p + 1

\* The local sums of the tasks that have done their add, 0 for the others.
Contribution == [j \in DOMAIN tasks |->
                    IF tasks[j].pc = "completed" THEN tasks[j].local_sum ELSE 0]

-----------------------------------------------------------------------------
(* Properties *)

\* C1: for valid (N, T), once the partitioner has produced its blocks they
\* number exactly T, are pairwise disjoint, and their union is [1, N].
C1_PartitionCovers ==
    (ValidArgs /\ PartitionDone) =>
        /\ DOMAIN tasks = 0..(num_threads - 1)
        /\ Cardinality(DOMAIN tasks) = num_threads
        /\ \A a, b \in DOMAIN tasks : a # b => Block(a) \cap Block(b) = {}
        /\ UNION {Block(j) : j \in DOMAIN tasks} = 1..n
        /\ \A j \in DOMAIN tasks :
              /\ tasks[j].start = j * TruncDiv(n, num_threads) + 1
              /\ tasks[j].end = IF j = num_threads - 1 THEN n
                                ELSE (j + 1) * TruncDiv(n, num_threads)

C1_Witness ==
    /\ ValidArgs /\ PartitionDone
    /\ num_threads = 3 /\ n = 4
    /\ main_pc = "returned"

\* C2 as stated: when T > N the partition has N non-empty blocks of exactly
\* one index each and T - N empty blocks, and every empty block contributes 0.
C2_Original ==
    (ValidArgs /\ num_threads > n /\ PartitionDone) =>
        /\ Cardinality({j \in DOMAIN tasks : ~EmptyBlock(j)}) = n
        /\ \A j \in DOMAIN tasks : ~EmptyBlock(j) => Cardinality(Block(j)) = 1
        /\ Cardinality({j \in DOMAIN tasks : EmptyBlock(j)}) = num_threads - n
        /\ \A j \in DOMAIN tasks :
              (EmptyBlock(j) /\ tasks[j].pc = "completed") => tasks[j].local_sum = 0

\* C2 as amended: when T > N the partition has T - 1 empty blocks, the blocks
\* 0..T-2 with start = 1 and end = 0, and one non-empty block, the last, which
\* is [1, N]; every empty block contributes 0.
C2_EmptyBlocksAndLast ==
    (ValidArgs /\ num_threads > n /\ PartitionDone) =>
        /\ {j \in DOMAIN tasks : EmptyBlock(j)} = 0..(num_threads - 2)
        /\ \A j \in 0..(num_threads - 2) : tasks[j].start = 1 /\ tasks[j].end = 0
        /\ Block(num_threads - 1) = 1..n
        /\ Cardinality({j \in DOMAIN tasks : EmptyBlock(j)}) = num_threads - 1
        /\ \A j \in DOMAIN tasks :
              (EmptyBlock(j) /\ tasks[j].pc = "completed") => tasks[j].local_sum = 0

C2_Witness ==
    /\ ValidArgs /\ PartitionDone
    /\ num_threads = 3 /\ n = 2
    /\ \A j \in DOMAIN tasks : tasks[j].pc = "completed"

\* C3: a call with N < 1 or T < 1 is rejected before any task is dispatched:
\* no task is ever created for it and it never returns a numeric result.
C3_RejectsInvalid ==
    (n < 1 \/ (USE_PARALLEL /\ num_threads < 1)) =>
        /\ main_pc # "returned"
        /\ tasks = << >>

\* C4: no update of global_sum is lost: global_sum is always the sum of the
\* local sums of the tasks that have done their add, each counted once, and
\* after the barrier it is the sum of the local sums of all T tasks.
C4_NoLostUpdate ==
    InParallel =>
        /\ global_sum = SumUpTo(Contribution, k)
        /\ (ValidArgs /\ main_pc = "returned") =>
              /\ DOMAIN tasks = 0..(num_threads - 1)
              /\ global_sum = SumUpTo([j \in DOMAIN tasks |-> tasks[j].local_sum],
                                      num_threads)

C4_Witness ==
    /\ InParallel /\ ValidArgs
    /\ main_pc = "returned"
    /\ team >= 2
    /\ num_threads = 3 /\ n = 4
    /\ \A j \in DOMAIN tasks : tasks[j].local_sum > 0

\* C5: the parallel reducer returns (reads global_sum for its result) only
\* when every task it dispatched has completed its add, and every block has
\* been dispatched.
C5_ReadAfterBarrier ==
    (USE_PARALLEL /\ main_pc = "returned") =>
        /\ \A j \in DOMAIN tasks : tasks[j].pc = "completed" /\ tasks[j].adds = 1
        /\ \A t \in Threads : thr[t].run = NoTask
        /\ k >= num_threads
        /\ result = global_sum

C5_Witness ==
    /\ USE_PARALLEL /\ main_pc = "returned"
    /\ ValidArgs
    /\ team >= 2 /\ single_owner # 0
    /\ num_threads >= 2

\* C6: every task does exactly one add to global_sum, when its loop is over;
\* global_sum has been mutated once per completed task, T times by the time
\* it is read.
C6_OneAddPerTask ==
    InParallel =>
        /\ \A j \in DOMAIN tasks :
              /\ tasks[j].adds = (IF tasks[j].pc = "completed" THEN 1 ELSE 0)
              /\ tasks[j].adds = 1 =>
                    /\ tasks[j].i < tasks[j].start
                    /\ Len(tasks[j].trace) = Cardinality(Block(j))
        /\ writes = SumUpTo([j \in DOMAIN tasks |-> tasks[j].adds], k)
        /\ (ValidArgs /\ main_pc = "returned") => writes = num_threads

C6_Witness ==
    /\ InParallel /\ ValidArgs
    /\ main_pc = "returned"
    /\ num_threads = 3 /\ n >= 3
    /\ writes = 3

\* C7: for valid (N, T) and every interleaving, the result of the parallel
\* reducer is, in exact arithmetic, equal to the result of the sequential
\* reducer, and so within the relative tolerance 1e-9 of it.
C7_ParallelAgrees ==
    (USE_PARALLEL /\ ValidArgs /\ main_pc = "returned") =>
        LET s == compute_harmonic_sequential(n)
            d == Abs(result - s)
        IN /\ result = s
           /\ d = 0 \/ (d <= s \div (10 ^ 9) /\ d * (10 ^ 9) < s)

C7_Witness ==
    /\ USE_PARALLEL /\ ValidArgs /\ main_pc = "returned"
    /\ n = 4 /\ num_threads = 3
    /\ result = SumRecip(4)

\* C8: the sequential reducer adds 1/i for every i from N down to 1, each
\* once, in descending order, in one pass, and returns the sum of the
\* reciprocals of 1..N.
C8_SequentialDescending ==
    (~USE_PARALLEL /\ main_pc \in {"seq_loop", "returned"}) =>
        /\ DescendingFrom(seq_trace, n)
        /\ Len(seq_trace) = (IF n >= 1 THEN n - i ELSE 0)
        /\ sum = SumTerms(seq_trace)
        /\ main_pc = "returned" =>
              /\ seq_trace = Descending(n, 1)
              /\ result = SumRecip(n)

C8_Witness ==
    /\ ~USE_PARALLEL /\ main_pc = "returned"
    /\ n = 4
    /\ seq_trace = <<4, 3, 2, 1>>

\* C9: a task given {start, end} adds to its local sum 1/i for every i from
\* end down to start, each once, in descending order, and no term for an
\* index outside [start, end].
C9_BlockDescending ==
    InParallel =>
        \A j \in DOMAIN tasks :
            /\ tasks[j].pc = "pending" => tasks[j].trace = << >>
            /\ tasks[j].pc # "pending" =>
                  /\ DescendingFrom(tasks[j].trace, tasks[j].end)
                  /\ Len(tasks[j].trace) = tasks[j].end - tasks[j].i
                  /\ \A p \in 1..Len(tasks[j].trace) : tasks[j].trace[p] \in Block(j)
                  /\ tasks[j].local_sum = SumTerms(tasks[j].trace)
            /\ tasks[j].pc = "completed" =>
                  tasks[j].trace = Descending(tasks[j].end, tasks[j].start)

C9_Witness ==
    /\ InParallel /\ ValidArgs
    /\ num_threads = 2 /\ n = 4
    /\ DOMAIN tasks = {0, 1}
    /\ tasks[0].pc = "completed" /\ tasks[0].trace = <<2, 1>>
    /\ tasks[1].pc = "completed" /\ tasks[1].trace = <<4, 3>>

\* C10: when block_size = 0 (T > N) every block but the last is empty, and
\* the task of an empty block does no iteration (divides by no index) and
\* contributes exactly 0: global_sum is the sum of the local sums of the
\* completed tasks of the non-empty blocks alone.
C10_EmptyBlocksDoNothing ==
    (InParallel /\ ValidArgs /\ num_threads > n) =>
        /\ (single_owner # NoThread /\ thr[single_owner].pc # "single") =>
              block_size = 0
        /\ \A j \in DOMAIN tasks :
              /\ j < num_threads - 1 => EmptyBlock(j)
              /\ EmptyBlock(j) =>
                    /\ tasks[j].trace = << >>
                    /\ tasks[j].local_sum = 0
        /\ global_sum = SumUpTo([j \in DOMAIN tasks |->
                                    IF EmptyBlock(j) THEN 0 ELSE Contribution[j]], k)

C10_Witness ==
    /\ InParallel /\ ValidArgs /\ num_threads > n
    /\ n = 2 /\ num_threads = 3
    /\ DOMAIN tasks = 0..2
    /\ tasks[0].pc = "completed" /\ tasks[1].pc = "completed"
    /\ tasks[2].pc = "running"
    /\ writes = 2 /\ global_sum = 0

\* C11: with T = 1 the partitioner produces exactly one block, and it is
\* [1, N]: start = 1 and end = N, for every N >= 1.
C11_SingleBlock ==
    (ValidArgs /\ num_threads = 1 /\ PartitionDone) =>
        /\ DOMAIN tasks = {0}
        /\ tasks[0].start = 1
        /\ tasks[0].end = n
        /\ Block(0) = 1..n

C11_Witness ==
    /\ ValidArgs /\ num_threads = 1 /\ PartitionDone
    /\ n = 4
    /\ tasks[0].pc = "completed"
    /\ tasks[0].trace = <<4, 3, 2, 1>>

\* C12: a second invocation of the sequential reducer on the same N goes
\* through the same sequence of states <<i, sum>> as the first one, and
\* returns the same sum.
C12_SequentialDeterministic ==
    (~USE_PARALLEL /\ calls >= 2 /\ main_pc \in {"seq_loop", "returned"}) =>
        /\ Len(seq_hist) <= Len(prev_hist)
        /\ seq_hist = SubSeq(prev_hist, 1, Len(seq_hist))
        /\ main_pc = "returned" =>
              /\ seq_hist = prev_hist
              /\ result = prev_result

C12_Witness ==
    /\ ~USE_PARALLEL /\ calls = 2 /\ main_pc = "returned"
    /\ n = 4
    /\ Len(seq_hist) = 5
    /\ result = prev_result /\ result = SumRecip(4)

\* C13: every invocation of the parallel reducer has its accumulator at zero
\* until a task is dispatched, whatever the previous invocation left, so a
\* repeated invocation with the same (N, T) returns the same result as the
\* previous one and not that result accumulated twice.
C13_FreshAccumulator ==
    InParallel =>
        /\ created = << >> => (global_sum = 0 /\ writes = 0)
        /\ (calls >= 2 /\ main_pc = "returned") => result = prev_result
        /\ (ValidArgs /\ main_pc = "returned") => result = SumRecip(n)

C13_Witness ==
    /\ InParallel /\ calls = 2 /\ main_pc = "par_region"
    /\ n = 4 /\ num_threads = 3
    /\ prev_result = SumRecip(4)
    /\ created = << >>
    /\ global_sum = 0

\* C14: for N >= T >= 1 every block but the last has exactly N / T indices
\* and the last has N / T + N mod T, so the last task does at most T - 1
\* iterations more than any other; N = 10, T = 3 gives [1,3], [4,6], [7,10].
C14_RemainderToLast ==
    (ValidArgs /\ n >= num_threads /\ PartitionDone) =>
        /\ \A j \in 0..(num_threads - 2) :
              /\ Cardinality(Block(j)) = n \div num_threads
              /\ Cardinality(Block(num_threads - 1)) - Cardinality(Block(j))
                    \in 0..(num_threads - 1)
        /\ Cardinality(Block(num_threads - 1)) =
              (n \div num_threads) + (n % num_threads)
        /\ (n = 10 /\ num_threads = 3) =>
              /\ tasks[0].start = 1 /\ tasks[0].end = 3
              /\ tasks[1].start = 4 /\ tasks[1].end = 6
              /\ tasks[2].start = 7 /\ tasks[2].end = 10

C14_Witness ==
    /\ ValidArgs /\ PartitionDone
    /\ n = 10 /\ num_threads = 3
    /\ block_size = 3
    /\ Cardinality(Block(2)) = 4

\* C15 as stated: in every state of both paths the sequential sum, the local
\* sum of every task that has started and global_sum are strictly positive.
C15_Original ==
    /\ (~USE_PARALLEL /\ n >= 1 /\ main_pc \in {"seq_loop", "returned"}) => sum > 0
    /\ (InParallel /\ ValidArgs) =>
          /\ global_sum > 0
          /\ \A j \in DOMAIN tasks : tasks[j].pc # "pending" => tasks[j].local_sum > 0

\* The sums are never negative, and a sum is strictly positive once a term
\* has been added to it.
SumsNonNegative ==
    /\ sum >= 0
    /\ global_sum >= 0
    /\ \A j \in DOMAIN tasks : tasks[j].local_sum >= 0
    /\ (~USE_PARALLEL /\ main_pc \in {"seq_loop", "returned"} /\ seq_trace # << >>)
          => sum > 0
    /\ InParallel =>
          /\ \A j \in DOMAIN tasks : tasks[j].trace # << >> => tasks[j].local_sum > 0
          /\ (\E j \in DOMAIN tasks :
                 tasks[j].pc = "completed" /\ tasks[j].trace # << >>) => global_sum > 0

\* A step of an invocation decreases no sum (the step that begins an
\* invocation initialises its accumulator).
SumsNotDecreased ==
    main_pc # "call" =>
        /\ sum' >= sum
        /\ global_sum' >= global_sum
        /\ \A j \in (DOMAIN tasks) \cap (DOMAIN tasks') :
              tasks'[j].local_sum >= tasks[j].local_sum

\* C15 as amended: every sum is non-negative in every state, strictly
\* positive once at least one term has been added to it, and no step of an
\* invocation decreases it.
C15_NonNegativeMonotone == [](SumsNonNegative) /\ [][SumsNotDecreased]_vars

C15_Witness ==
    /\ InParallel /\ ValidArgs /\ main_pc = "returned"
    /\ n = 2 /\ num_threads = 3
    /\ tasks[0].local_sum = 0 /\ tasks[0].pc = "completed"
    /\ tasks[2].local_sum > 0
    /\ global_sum = tasks[2].local_sum

\* The phases of the parallel path.
AllDispatched == PartitionDone /\ DOMAIN tasks = 0..(num_threads - 1)
AllCompleted ==
    AllDispatched /\ \A j \in DOMAIN tasks : tasks[j].pc = "completed"
BarrierPassed ==
    /\ AllCompleted
    /\ thr[single_owner].pc \in {"barrier", "region_end", "joined"}
    /\ thr[0].pc = "joined"
ResultAvailable == USE_PARALLEL /\ main_pc = "returned"

\* The phases are entered in their order.
PhaseOrder ==
    /\ ResultAvailable => (BarrierPassed /\ result = global_sum)
    /\ (InParallel /\ single_owner # NoThread
          /\ thr[single_owner].pc \in {"barrier", "region_end", "joined"})
          => AllCompleted
    /\ (InParallel /\ \E t \in Threads : thr[t].pc \in {"region_end", "joined"})
          => AllCompleted

\* C16: for valid (N, T) and any team size, under fair scheduling the
\* parallel path terminates: all T tasks are dispatched, every dispatched task
\* completes, the coordinator passes the taskwait and the barrier, and the
\* result becomes available, in this order.
C16_Terminates ==
    /\ [](PhaseOrder)
    /\ (main_pc = "call") ~> AllDispatched
    /\ \A j \in 0..(LiveMaxT - 1) :
          (j \in DOMAIN tasks) ~> (j \in DOMAIN tasks /\ tasks[j].pc = "completed")
    /\ AllDispatched ~> AllCompleted
    /\ AllCompleted ~> BarrierPassed
    /\ BarrierPassed ~> ResultAvailable
    /\ <>(ResultAvailable)

C16_Witness ==
    /\ ResultAvailable /\ ValidArgs
    /\ num_threads = 2 /\ team = 2 /\ n = 3
    /\ single_owner = 1
    /\ writes = 2

\* C17: for valid (N, T), whenever a loop is about to divide by its index i
\* (its condition holds), 1 <= i <= N, in the sequential loop and in every
\* task, also when T > N; every index that has been divided by is in [1, N].
C17_IndexInRange ==
    /\ (~USE_PARALLEL /\ n >= 1 /\ main_pc = "seq_loop" /\ i >= 1) => i \in 1..n
    /\ (~USE_PARALLEL /\ n >= 1 /\ main_pc \in {"seq_loop", "returned"}) =>
          \A p \in 1..Len(seq_trace) : seq_trace[p] \in 1..n
    /\ (InParallel /\ ValidArgs) =>
          \A j \in DOMAIN tasks :
             /\ (tasks[j].pc = "running" /\ tasks[j].i >= tasks[j].start) =>
                   tasks[j].i \in 1..n
             /\ \A p \in 1..Len(tasks[j].trace) : tasks[j].trace[p] \in 1..n

C17_Witness ==
    /\ InParallel /\ ValidArgs
    /\ n = 2 /\ num_threads = 3
    /\ DOMAIN tasks = 0..2
    /\ tasks[0].pc = "completed" /\ tasks[0].trace = << >>
    /\ tasks[2].pc = "running" /\ tasks[2].i = 1 /\ tasks[2].trace = <<2>>

\* The bounds of block j as the partitioner computes them from (N, T).
OwnStart(j) == j * TruncDiv(n, num_threads) + 1
OwnEnd(j) == IF j = num_threads - 1 THEN n ELSE (j + 1) * TruncDiv(n, num_threads)

\* The local sum of every task is determined by its own block and its own
\* progress in it: the task holds the bounds of its block, whatever start and
\* end the coordinator holds now, and its sum is that of the indices from
\* end down to where it is; once completed it is the sum over its block.
OwnBlockOnly ==
    (InParallel /\ ValidArgs) =>
        \A j \in DOMAIN tasks :
            /\ tasks[j].start = OwnStart(j)
            /\ tasks[j].end = OwnEnd(j)
            /\ tasks[j].pc # "pending" =>
                  tasks[j].local_sum =
                      SumTerms(Descending(OwnEnd(j), tasks[j].i + 1))
            /\ tasks[j].pc = "completed" =>
                  tasks[j].local_sum = SumTerms(Descending(OwnEnd(j), OwnStart(j)))

\* A step that changes the local sum of a task adds to it the term of the
\* index of that task, changes no other task, and leaves global_sum alone.
LocalStepOnly ==
    (InParallel /\ ValidArgs) =>
        \A j \in (DOMAIN tasks) \cap (DOMAIN tasks') :
            tasks'[j].local_sum # tasks[j].local_sum =>
                /\ tasks'[j].local_sum = tasks[j].local_sum + Term(tasks[j].i)
                /\ global_sum' = global_sum
                /\ \A h \in ((DOMAIN tasks) \cap (DOMAIN tasks')) \ {j} :
                      tasks'[h] = tasks[h]

\* C18: the tasks are independent: each works on its own copy of (start, end)
\* taken when it was created, so its local sum depends on its own block only,
\* whatever the order in which the tasks run and whether or not the
\* coordinator has gone on to later blocks; computing it involves neither
\* global_sum nor another task.
C18_TasksIndependent == [](OwnBlockOnly) /\ [][LocalStepOnly]_vars

C18_Witness ==
    /\ InParallel /\ ValidArgs
    /\ n = 4 /\ num_threads = 3
    /\ DOMAIN tasks = 0..2
    /\ start = 3 /\ end = 4
    /\ tasks[2].pc = "completed"
    /\ tasks[0].pc = "running" /\ tasks[0].start = 1 /\ tasks[0].end = 1
    /\ tasks[0].trace = <<1>>

\* C19: every thread of the team enters the region, and one thread alone
\* creates tasks: the tasks created so far are those of the blocks 0, 1, ...
\* in this order, one each, all created by the thread that executes the
\* single block; once the loop is left exactly T tasks have been created,
\* one for each block index in [0, T-1].
C19_OneCreator ==
    (InParallel /\ ValidArgs) =>
        /\ Cardinality({t \in Threads : thr[t].pc \in {"single", "loop", "taskwait"}}) <= 1
        /\ \A p \in 1..Len(created) :
              /\ created[p].block = p - 1
              /\ created[p].by = single_owner
        /\ Len(created) <= num_threads
        /\ DOMAIN tasks = {created[p].block : p \in 1..Len(created)}
        /\ PartitionDone =>
              /\ Len(created) = num_threads
              /\ {created[p].block : p \in 1..Len(created)} = 0..(num_threads - 1)

C19_Witness ==
    /\ InParallel /\ ValidArgs /\ PartitionDone
    /\ num_threads = 3 /\ team = 3
    /\ single_owner = 2
    /\ Len(created) = 3
    /\ \A t \in Threads : thr[t].pc # "enter"

\* C20: for valid (N, T) every block has start >= 1 and end >= start - 1, and
\* consecutive blocks are contiguous: the start of block j + 1 is the end of
\* block j plus 1, also when block_size = 0.
C20_BlocksContiguous ==
    (InParallel /\ ValidArgs) =>
        \A j \in DOMAIN tasks :
            /\ tasks[j].start >= 1
            /\ tasks[j].end >= tasks[j].start - 1
            /\ (j + 1) \in DOMAIN tasks => tasks[j + 1].start = tasks[j].end + 1

C20_Witness ==
    /\ InParallel /\ ValidArgs /\ PartitionDone
    /\ n = 2 /\ num_threads = 3
    /\ block_size = 0
    /\ tasks[1].start = 1 /\ tasks[1].end = 0
    /\ tasks[2].start = 1 /\ tasks[2].end = 2

\* C21: the sequential reducer is the one block case of the parallel path.
\* Both go through the states <<i, sum>> of the same descending loop from
\* <<N, 0>>: the sequential reducer with its i and sum, the only task of
\* compute_harmonic_parallel(N, 1) with its i and local_sum, adding the terms
\* of N, N-1, ..., 1.  The task then does the only add, onto an accumulator
\* that is zero, and the parallel reducer returns what the sequential one
\* returns, for every N >= 1.
C21_SequentialIsOneBlock ==
    /\ (~USE_PARALLEL /\ n >= 1 /\ main_pc \in {"seq_loop", "returned"}) =>
          /\ seq_hist = SubSeq(SeqStatesFrom(n, 0), 1, Len(seq_hist))
          /\ <<i, sum>> = SeqStatesFrom(n, 0)[Len(seq_trace) + 1]
          /\ main_pc = "returned" =>
                /\ Len(seq_hist) = Len(SeqStatesFrom(n, 0))
                /\ result = compute_harmonic_sequential(n)
    /\ (InParallel /\ n >= 1 /\ num_threads = 1) =>
          /\ DOMAIN tasks \subseteq {0}
          /\ \A j \in DOMAIN tasks :
                /\ tasks[j].pc = "pending" => (writes = 0 /\ global_sum = 0)
                /\ tasks[j].pc = "running" =>
                      /\ <<tasks[j].i, tasks[j].local_sum>> =
                            SeqStatesFrom(n, 0)[Len(tasks[j].trace) + 1]
                      /\ tasks[j].trace = SubSeq(Descending(n, 1), 1, Len(tasks[j].trace))
                      /\ writes = 0 /\ global_sum = 0
                /\ tasks[j].pc = "completed" =>
                      /\ tasks[j].trace = Descending(n, 1)
                      /\ <<tasks[j].i, tasks[j].local_sum>> =
                            SeqStatesFrom(n, 0)[Len(SeqStatesFrom(n, 0))]
                      /\ writes = 1
                      /\ global_sum = compute_harmonic_sequential(n)
          /\ main_pc = "returned" =>
                /\ DOMAIN tasks = {0}
                /\ result = compute_harmonic_sequential(n)

C21_Witness ==
    /\ InParallel /\ num_threads = 1 /\ n = 4
    /\ main_pc = "returned"
    /\ calls = 1
    /\ DOMAIN tasks = {0}
    /\ tasks[0].trace = <<4, 3, 2, 1>>
    /\ writes = 1
    /\ result = SumRecip(4)

=============================================================================
